---- MODULE Spec2Model ----
(***************************************************************************)
(* State-machine model of the LargeFileBuster native core: the path-keyed  *)
(* SQLite store (native/src/database.cc) behind the addon entry points     *)
(* (native/src/addon.cc).                                                  *)
(*                                                                         *)
(* A path is a sequence of one-character strings, so that the SQL LIKE     *)
(* match of getRoots and the BINARY collation of ORDER BY path can be      *)
(* computed character by character.  The table `items` is kept in rowid    *)
(* order, which is the order an index scan yields rows of equal key.       *)
(***************************************************************************)
EXTENDS Integers, Sequences, FiniteSets, TLC

\* ------------------------------------------------------------------------
\* Paths and characters
\* ------------------------------------------------------------------------
pA  == <<"/", "a">>
pAB == <<"/", "a", "/", "b">>
pX  == <<"/", "a", "b">>
pC  == <<"/", "c">>
pU  == <<"/", "_">>
pM  == <<"/", "m">>
pD  == <<"/", "d">>
pDF == <<"/", "d", "/", "f">>
pDG == <<"/", "d", "/", "g">>
pDS == <<"/", "d", "/", "s">>
pDX == <<"/", "d", "/", "x">>

\* std::string "" (ItemRecord.parent of a root)
Empty == <<>>

\* SQL NULL in the parent column
NULL == <<"NULL">>

\* byte value of a character (BINARY collation compares bytes)
Code(c) ==
  CASE c = "%" -> 37
    [] c = "/" -> 47
    [] c = "A" -> 65
    [] c = "_" -> 95
    [] c = "a" -> 97
    [] c = "b" -> 98
    [] c = "c" -> 99
    [] c = "m" -> 109
    [] OTHER   -> 0

\* LIKE folds ASCII letters before comparing them
Fold(c) ==
  CASE c = "A" -> "a"
    [] OTHER   -> c

\* str LIKE pat, with the default SQLite rules: '%' matches any run of
\* characters, '_' matches exactly one, letters compare case-insensitively.
RECURSIVE Like(_, _)
Like(str, pat) ==
  IF pat = <<>> THEN str = <<>>
  ELSE IF Head(pat) = "%"
       THEN \E k \in 0..Len(str) : Like(SubSeq(str, k + 1, Len(str)), Tail(pat))
       ELSE /\ str # <<>>
            /\ \/ Head(pat) = "_"
               \/ Fold(Head(pat)) = Fold(Head(str))
            /\ Like(Tail(str), Tail(pat))

\* memcmp order of two TEXT values (ORDER BY path ASC)
RECURSIVE TextLess(_, _)
TextLess(s, t) ==
  IF t = <<>> THEN FALSE
  ELSE IF s = <<>> THEN TRUE
  ELSE IF Code(Head(s)) # Code(Head(t)) THEN Code(Head(s)) < Code(Head(t))
  ELSE TextLess(Tail(s), Tail(t))

\* ------------------------------------------------------------------------
\* Records
\* ------------------------------------------------------------------------
ItemRecord(path, parent, type, sizeBytes, fileCount, folderCount, lastWriteUtc, scannedUtc, depth, runId) ==
  [path |-> path, parent |-> parent, type |-> type, sizeBytes |-> sizeBytes,
   fileCount |-> fileCount, folderCount |-> folderCount,
   lastWriteUtc |-> lastWriteUtc, scannedUtc |-> scannedUtc,
   depth |-> depth, runId |-> runId]

\* the ten sqlite3_bind_* calls of upsertItems: an empty parent is bound as NULL
BindRow(item) ==
  [item EXCEPT !.parent = IF item.parent = Empty THEN NULL ELSE item.parent]

\* the ten sqlite3_column_* reads of every query: a NULL parent reads as ""
ReadRow(row) ==
  [row EXCEPT !.parent = IF row.parent = NULL THEN Empty ELSE row.parent]

ReadRows(rows) == [i \in 1..Len(rows) |-> ReadRow(rows[i])]

\* ------------------------------------------------------------------------
\* SQL statements of the store, as functions of the table (a sequence of
\* rows in rowid order)
\* ------------------------------------------------------------------------
RowIndex(tbl, path) ==
  IF \E i \in 1..Len(tbl) : tbl[i].path = path
  THEN CHOOSE i \in 1..Len(tbl) : tbl[i].path = path
  ELSE 0

\* sqlUpsert with scannedUtc=excluded.scannedUtc: no CASE on the empty string
sqlUpsert_Overwrite(tbl, new) ==
  LET i == RowIndex(tbl, new.path) IN
  IF i = 0 THEN Append(tbl, new) ELSE [tbl EXCEPT ![i] = new]

\* sqlUpsert without the ON CONFLICT(path) clause on a table without the
\* primary key: every step inserts
sqlUpsert_Insert(tbl, new) == Append(tbl, new)

\* an upsert that replaces the whole table by the new row
sqlUpsert_Replace(tbl, new) == <<new>>

\* sqlUpsert with a CASE that keeps a stored non-empty scannedUtc
sqlUpsert_KeepFirst(tbl, new) ==
  LET i == RowIndex(tbl, new.path) IN
  IF i = 0 THEN Append(tbl, new)
  ELSE [tbl EXCEPT ![i] =
          [new EXCEPT !.scannedUtc = IF tbl[i].scannedUtc # "" THEN tbl[i].scannedUtc
                                     ELSE new.scannedUtc]]

\* INSERT ... ON CONFLICT(path) DO UPDATE SET ... (one sqlite3_step)
sqlUpsert(tbl, new) ==
  LET i == RowIndex(tbl, new.path) IN
  IF i = 0 THEN Append(tbl, new)
  ELSE [tbl EXCEPT ![i] =
          [path         |-> tbl[i].path,
           parent       |-> new.parent,
           type         |-> new.type,
           sizeBytes    |-> new.sizeBytes,
           fileCount    |-> new.fileCount,
           folderCount  |-> new.folderCount,
           lastWriteUtc |-> new.lastWriteUtc,
           scannedUtc   |-> IF new.scannedUtc = "" THEN tbl[i].scannedUtc
                            ELSE new.scannedUtc,
           depth        |-> new.depth,
           runId        |-> new.runId]]

\* the elements of seq at the indices in idx, from index i on, in seq order
RECURSIVE Pick(_, _, _)
Pick(seq, idx, i) ==
  IF i > Len(seq) THEN <<>>
  ELSE (IF i \in idx THEN <<seq[i]>> ELSE <<>>) \o Pick(seq, idx, i + 1)

\* WHERE: the rows of tbl at the indices in idx, in rowid order
SelectWhere(tbl, idx) == Pick(tbl, idx, 1)

\* ORDER BY sizeBytes ASC in place of DESC
Before_Ascending(sort, x, y) ==
  IF sort = "name_asc" THEN TextLess(x.path, y.path)
  ELSE x.sizeBytes < y.sizeBytes

\* the ORDER BY term: sizeBytes DESC, or path ASC for "name_asc"
Before(sort, x, y) ==
  IF sort = "name_asc" THEN TextLess(x.path, y.path)
  ELSE x.sizeBytes > y.sizeBytes

\* sortClause of getChildren and getRoots: rows of equal key keep their
\* rowid order
sortClause(seq, sort) ==
  LET n == Len(seq)
      rank(i) == 1 + Cardinality({j \in 1..n :
                       \/ Before(sort, seq[j], seq[i])
                       \/ (~Before(sort, seq[i], seq[j]) /\ j < i)})
  IN  [k \in 1..n |-> seq[CHOOSE i \in 1..n : rank(i) = k]]

\* LIMIT ? alone: the OFFSET is dropped
LimitOffset_NoOffset(seq, limit, offset) ==
  IF limit < 0 \/ limit >= Len(seq) THEN seq ELSE SubSeq(seq, 1, limit)

\* LIMIT ? OFFSET ?: a negative LIMIT means no limit, a negative OFFSET is 0
LimitOffset(seq, limit, offset) ==
  LET off  == IF offset < 0 THEN 0 ELSE offset
      rest == IF off >= Len(seq) THEN <<>> ELSE SubSeq(seq, off + 1, Len(seq))
  IN  IF limit < 0 \/ limit >= Len(rest) THEN rest ELSE SubSeq(rest, 1, limit)

\* ------------------------------------------------------------------------
\* Database methods (native/src/database.cc), on the table of an open
\* connection
\* ------------------------------------------------------------------------

\* a filter that lets every type through
ValidType_Any(item) == TRUE

\* the type test of the loop: if (item.type != "File" && item.type !=
\* "Folder") continue
ValidType(item) == item.type = "File" \/ item.type = "Folder"

\* the for loop of Database::upsertItems: rows that are neither "File" nor
\* "Folder" are skipped, every other row is bound and stepped
RECURSIVE upsertLoop(_, _)
upsertLoop(tbl, batch) ==
  IF batch = <<>> THEN tbl
  ELSE LET item == Head(batch) IN
       IF ~ValidType(item)
       THEN upsertLoop(tbl, Tail(batch))
       ELSE upsertLoop(sqlUpsert(tbl, BindRow(item)), Tail(batch))

\* Database::upsertItems under the mutex: BEGIN, the loop, COMMIT
upsertItems(open, tbl, batch) ==
  IF ~open \/ batch = <<>> THEN tbl ELSE upsertLoop(tbl, batch)

\* what sqlite3_step of the upsert statement can do.  "done": the row is
\* written.  "abort": the statement fails and only its own changes are
\* undone.  "rollback": the statement fails and the engine rolls the whole
\* transaction back (SQLITE_FULL, SQLITE_IOERR, SQLITE_NOMEM), after which
\* the connection is in autocommit mode.
StepCodes == {"done", "abort", "rollback"}

\* the table and the transaction after one sqlite3_step; txn.begin is the
\* table at BEGIN TRANSACTION, txn.active is FALSE once it was rolled back
stepUpsert(txn, item, rc) ==
  CASE rc = "done"  -> [txn EXCEPT !.tbl = sqlUpsert(txn.tbl, BindRow(item))]
    [] rc = "abort" -> txn
    [] OTHER        -> IF txn.active
                       THEN [tbl |-> txn.begin, begin |-> txn.begin, active |-> FALSE]
                       ELSE txn

\* the for loop of Database::upsertItems where the i-th sqlite3_step returns
\* rcs[i]: a failure is written to std::cerr and the loop goes on
RECURSIVE upsertLoopRc(_, _, _)
upsertLoopRc(txn, batch, rcs) ==
  IF batch = <<>> THEN txn
  ELSE IF ~ValidType(Head(batch))
       THEN upsertLoopRc(txn, Tail(batch), Tail(rcs))
       ELSE upsertLoopRc(stepUpsert(txn, Head(batch), Head(rcs)),
                         Tail(batch), Tail(rcs))

\* Database::upsertItems with the result codes rcs: BEGIN TRANSACTION, the
\* loop, COMMIT (which fails, and is only logged, when no transaction is
\* active any more)
upsertItemsRc(open, tbl, batch, rcs) ==
  IF ~open \/ batch = <<>> THEN tbl
  ELSE upsertLoopRc([tbl |-> tbl, begin |-> tbl, active |-> TRUE], batch, rcs).tbl

\* Database::getItemByPath: the row as a one-element sequence, <<>> for nullptr
getItemByPath(open, tbl, path) ==
  IF ~open THEN <<>>
  ELSE ReadRows(LimitOffset(
         SelectWhere(tbl, {i \in 1..Len(tbl) : tbl[i].path = path}), 1, 0))

\* Database::getChildren; parent = NULL stands for the null pointer
getChildren(open, tbl, parent, limit, offset, sort, includeFiles) ==
  IF ~open THEN <<>>
  ELSE LET whereClause(r) == IF parent # NULL THEN r.parent = parent
                             ELSE r.parent = NULL
           typeFilter(r)  == includeFiles \/ r.type = "Folder"
           matching == SelectWhere(tbl, {i \in 1..Len(tbl) :
                                      whereClause(tbl[i]) /\ typeFilter(tbl[i])})
       IN  ReadRows(LimitOffset(sortClause(matching, sort), limit, offset))

\* Database::getRoots
getRoots(open, tbl, limit, sort) ==
  IF ~open THEN <<>>
  ELSE LET paths == {tbl[i].path : i \in 1..Len(tbl)}
           contained(row) ==
             \E i \in 1..Len(tbl) :
                /\ tbl[i].parent = NULL
                /\ Like(row.path, tbl[i].path \o <<"%">>)
           isRoot(row) ==
             \/ row.parent = NULL
             \/ (row.parent \notin paths /\ ~contained(row))
           roots == SelectWhere(tbl, {i \in 1..Len(tbl) : isRoot(tbl[i])})
       IN  ReadRows(LimitOffset(sortClause(roots, sort), limit, 0))

\* Database::getTop
getTop(open, tbl, type, limit) ==
  IF ~open THEN <<>>
  ELSE ReadRows(LimitOffset(
         sortClause(SelectWhere(tbl, {i \in 1..Len(tbl) : tbl[i].type = type}),
                    "size_desc"), limit, 0))

\* Database::reset: DROP TABLE IF EXISTS items, then createSchema.  SQLite
\* refuses the DROP (SQLITE_LOCKED, "database table is locked") while a
\* statement of the connection is still positioned on a row of the table;
\* exec() only logs the error and CREATE TABLE IF NOT EXISTS keeps the table.
reset(open, tbl, stmt) ==
  IF open /\ stmt # "row" THEN <<>> ELSE tbl

\* VACUUM that rebuilds the file without its rows
vacuum_Truncate(open, tbl) == <<>>

\* Database::vacuum: VACUUM rebuilds the database file; the rows of the table
\* are the same after it, and also when SQLite refuses it
vacuum(open, tbl) == tbl

\* ------------------------------------------------------------------------
\* Scanner::scanShallow (native/src/scanner.cc) over a fixed directory tree
\* ------------------------------------------------------------------------

\* the directories that can be listed, each with its entries
\* [path, kind, size, lwt]; a path outside the domain cannot be iterated
FsDirs ==
  (pC :> <<>>) @@
  (pD :> <<[path |-> pDF, kind |-> "file", size |-> 5, lwt |-> 1200],
           [path |-> pDS, kind |-> "dir", size |-> 0, lwt |-> 0],
           [path |-> pDX, kind |-> "error", size |-> 0, lwt |-> 0],
           [path |-> pDG, kind |-> "file", size |-> 7, lwt |-> 3000]>>) @@
  (pDS :> <<[path |-> pDS \o <<"/", "f">>, kind |-> "file", size |-> 11, lwt |-> 4000],
            [path |-> pDS \o <<"/", "e">>, kind |-> "dir", size |-> 0, lwt |-> 0],
            [path |-> pDS \o <<"/", "g">>, kind |-> "file", size |-> 13, lwt |-> 900]>>)

\* toIsoString: the epoch milliseconds truncated to whole seconds
toIsoString(epochMs) == ToString((epochMs \div 1000) * 1000)

\* last write time of a listed directory, and the clock, in epoch ms
DirLwtMs == 1500
NowMs    == 2500

\* index of the last "/" of path, 0 if there is none
LastSlash(path) ==
  IF \E i \in 1..Len(path) : path[i] = "/"
  THEN CHOOSE i \in 1..Len(path) :
         path[i] = "/" /\ \A j \in (i + 1)..Len(path) : path[j] # "/"
  ELSE 0

\* getParent: fs::path::parent_path, "" when there is none or it is the path
getParent(path) ==
  LET k == LastSlash(path)
      parent == IF k = 0 THEN Empty
                ELSE IF k = 1 THEN <<"/">>
                ELSE SubSeq(path, 1, k - 1)
  IN  IF parent = Empty \/ parent = path THEN Empty ELSE parent

\* Scanner::statDirShallow: direct aggregate of one directory
statDirShallow(dirPath) ==
  LET es == IF dirPath \in DOMAIN FsDirs THEN FsDirs[dirPath] ELSE <<>>
      files == {i \in 1..Len(es) : es[i].kind = "file"}
      RECURSIVE Sum(_)
      Sum(S) == IF S = {} THEN 0
                ELSE LET i == CHOOSE x \in S : TRUE IN es[i].size + Sum(S \ {i})
      RECURSIVE Max(_)
      Max(S) == IF S = {} THEN 0
                ELSE LET i == CHOOSE x \in S : TRUE
                         m == Max(S \ {i})
                     IN  IF es[i].lwt > m THEN es[i].lwt ELSE m
  IN  [sizeBytes |-> Sum(files), fileCount |-> Cardinality(files),
       folderCount |-> Cardinality({i \in 1..Len(es) : es[i].kind = "dir"}),
       latestMs |-> Max(files)]

\* one iteration of the entry loop of scanShallow: the running totals and the
\* emitted records after the entry
shallowEntry(acc, entry, startPath, runId) ==
  IF entry.kind = "file"
  THEN [totalSize |-> acc.totalSize + entry.size,
        totalFiles |-> acc.totalFiles + 1,
        totalFolders |-> acc.totalFolders,
        latest |-> IF entry.lwt > acc.latest THEN entry.lwt ELSE acc.latest,
        out |-> Append(acc.out,
                  ItemRecord(entry.path, startPath, "File", entry.size, 1, 0,
                             toIsoString(entry.lwt), "", 1, runId))]
  ELSE IF entry.kind = "dir"
  THEN LET dirStats == statDirShallow(entry.path) IN
       [totalSize |-> acc.totalSize + dirStats.sizeBytes,
        totalFiles |-> acc.totalFiles,
        totalFolders |-> acc.totalFolders + 1,
        latest |-> IF dirStats.latestMs > acc.latest THEN dirStats.latestMs
                   ELSE acc.latest,
        out |-> Append(acc.out,
                  ItemRecord(entry.path, startPath, "Folder", dirStats.sizeBytes,
                             dirStats.fileCount, dirStats.folderCount,
                             toIsoString(IF dirStats.latestMs > 0
                                         THEN dirStats.latestMs ELSE NowMs),
                             "", 1, runId))]
  ELSE acc

RECURSIVE shallowLoop(_, _, _, _)
shallowLoop(acc, entries, startPath, runId) ==
  IF entries = <<>> THEN acc
  ELSE shallowLoop(shallowEntry(acc, Head(entries), startPath, runId),
                   Tail(entries), startPath, runId)

\* Scanner::scanShallow: the child records, then the record of startPath;
\* nothing at all when startPath cannot be iterated
scanShallow(startPath, runId) ==
  IF startPath \notin DOMAIN FsDirs THEN <<>>
  ELSE LET acc == shallowLoop([totalSize |-> 0, totalFiles |-> 0,
                               totalFolders |-> 0, latest |-> 0, out |-> <<>>],
                              FsDirs[startPath], startPath, runId)
           latest == IF DirLwtMs > acc.latest THEN DirLwtMs ELSE acc.latest
       IN  Append(acc.out,
             ItemRecord(startPath, getParent(startPath), "Folder",
                        acc.totalSize, acc.totalFiles, acc.totalFolders,
                        toIsoString(IF latest > 0 THEN latest ELSE NowMs),
                        "", 0, runId))

\* ------------------------------------------------------------------------
\* Inputs
\* ------------------------------------------------------------------------
MaxBatch  == 2
MaxLimit  == 2
MaxOffset == 1

\* records the orchestrator upserts into the store
N1 == ItemRecord(pA, Empty, "Folder", 2, 4, 1, "L1", "T1", 0, "r1")
N2 == ItemRecord(pA, pM, "File", 3, 1, 0, "L2", "", 1, "r2")
N3 == ItemRecord(pA, Empty, "Folder", 2, 4, 1, "L1", "T2", 0, "r3")
N5 == ItemRecord(pC, pM, "Folder", 1, 0, 0, "L1", "", 1, "r1")
N8 == ItemRecord(pC, pM, "Symlink", 3, 0, 0, "L2", "T1", 1, "r2")
Nodes == {N1, N2, N3, N5, N8}
Paths == {pA, pC}

\* records of the query scenarios: /a and /_ have no parent, /a/b declares
\* the parent /a, /c and /ab (of equal size) declare the parent /m, which is
\* never stored
Q1 == ItemRecord(pA, Empty, "Folder", 2, 4, 1, "L1", "", 0, "r1")
Q3 == ItemRecord(pAB, pA, "File", 1, 1, 0, "L1", "", 1, "r1")
Q4 == ItemRecord(pC, pM, "Folder", 1, 0, 0, "L1", "", 1, "r1")
Q5 == ItemRecord(pX, pM, "Folder", 1, 0, 0, "L1", "", 1, "r1")
Q6 == ItemRecord(pU, Empty, "File", 1, 1, 0, "L1", "", 0, "r1")
QNodes == {Q1, Q3, Q4, Q5, Q6}

\* the batches of at most n records over a set of records
RECURSIVE BatchesOf(_, _)
BatchesOf(S, n) ==
  IF n = 0 THEN {<<>>}
  ELSE LET shorter == BatchesOf(S, n - 1)
       IN  shorter \cup {Append(b, x) : b \in {c \in shorter : Len(c) = n - 1}, x \in S}

Batches == BatchesOf(Nodes, MaxBatch)

Limits  == (-1)..MaxLimit
Offsets == 0..MaxOffset
Sorts   == {"size_desc", "name_asc"}
Types   == {"File", "Folder"}
ScanPaths == {pC, pM}

\* ------------------------------------------------------------------------
\* State
\* ------------------------------------------------------------------------
VARIABLES
  globalDb,        \* "null" or "set": the addon's unique_ptr<Database>
  db_,             \* TRUE iff the Database holds an open connection
  stmtGetByPath_,  \* "null", "ready" (prepared, not running) or "row"
                   \* (stepped to a row and not reset since)
  items,           \* the table items of the database file, in rowid order
  ret,             \* outcome of the last addon call
  upserted,        \* paths of the valid records passed to upsertItems on an
                   \* open store since the last call of reset (history)
  mutex_,          \* 0 when free, or the thread inside a lock_guard
  pc,              \* per thread: "idle", "lock", "body" or "loop"
  job,             \* per thread: the Database method it runs, its arguments,
                   \* the index of the next record of a batch, whether a
                   \* batch was half applied when it was called, and the
                   \* number of calls it has made
  seen,            \* per thread: what its last read returned (history)
  committed,       \* the table at the last COMMIT (history)
  order,           \* the batches in the order of their COMMIT (history)
  fsId,            \* the directory tree a deep scan runs on
  cancelled,       \* std::atomic<bool>& cancelled of scanFullAsync
  itemsScanned_,   \* Scanner::itemsScanned_
  lastProgressUpdate_,  \* Scanner::lastProgressUpdate_
  stack,           \* the activations of scanFullAsync, innermost last
  scanResult,      \* what the outermost scanFullAsync returned, or NoResult
  progress,        \* the events handed to progressCb, in order (history)
  hist             \* counts of the run (history): files added and their
                   \* size, files added and directories opened while the
                   \* flag was set, whether the flag was set at the start,
                   \* the records pushed to a batchItems in program order

storeVars == <<globalDb, db_, stmtGetByPath_, items, ret, upserted>>
concVars  == <<mutex_, pc, job, seen, committed, order>>
deepVars  == <<fsId, cancelled, itemsScanned_, lastProgressUpdate_, stack,
               scanResult, progress, hist>>
vars == <<globalDb, db_, stmtGetByPath_, items, ret, upserted,
          mutex_, pc, job, seen, committed, order,
          fsId, cancelled, itemsScanned_, lastProgressUpdate_, stack,
          scanResult, progress, hist>>

\* the two threads of the concurrent runs
Threads == {1, 2}
NoJob  == [op |-> "none", args |-> <<>>, idx |-> 0, midBatch |-> FALSE, calls |-> 0]
NoRead == [op |-> "none", val |-> <<>>, partial |-> FALSE, midBatch |-> FALSE]

NotOpen == "Database not open"

\* ScanResult{0, 0, 0, 0}
ZeroResult == [sizeBytes |-> 0, fileCount |-> 0, folderCount |-> 0, latestMs |-> 0]
NoResult   == [none |-> TRUE]
NoHist     == [files |-> 0, size |-> 0, lateFiles |-> 0, lateDirs |-> 0,
               flagAtStart |-> FALSE, emitted |-> <<>>]

\* Scanner::Scanner, and a cancellation flag that is not set; no scan runs
ScannerInit ==
  /\ cancelled = FALSE
  /\ itemsScanned_ = 0
  /\ lastProgressUpdate_ = 0
  /\ stack = <<>>
  /\ scanResult = NoResult
  /\ progress = <<>>
  /\ hist = NoHist

Outcome(op, out, args, val, pre) ==
  [op |-> op, out |-> out, args |-> args, val |-> val, pre |-> pre]

Init ==
  /\ globalDb = "null"
  /\ db_ = FALSE
  /\ stmtGetByPath_ = "null"
  /\ items = <<>>
  /\ ret = Outcome("none", "ok", <<>>, <<>>, <<>>)
  /\ upserted = {}
  /\ mutex_ = 0
  /\ pc = [t \in Threads |-> "idle"]
  /\ job = [t \in Threads |-> NoJob]
  /\ seen = [t \in Threads |-> NoRead]
  /\ committed = <<>>
  /\ order = <<>>
  /\ fsId = 1
  /\ ScannerInit

\* ------------------------------------------------------------------------
\* Addon entry points (native/src/addon.cc)
\* ------------------------------------------------------------------------

\* OpenDatabase: a new Database replaces the old one (whose destructor
\* closes it), then open(); sqlite3_open may fail
OpenDatabase ==
  /\ globalDb' = "set"
  /\ \/ /\ db_' = TRUE
        /\ stmtGetByPath_' = "ready"
        /\ ret' = Outcome("OpenDatabase", "ok", <<>>, <<>>, <<>>)
     \/ /\ db_' = FALSE
        /\ stmtGetByPath_' = "null"
        /\ ret' = Outcome("OpenDatabase", "Failed to open database", <<>>, <<>>, <<>>)
  /\ UNCHANGED <<items, upserted>>
  /\ UNCHANGED <<concVars, deepVars>>

CloseDatabase ==
  /\ globalDb' = "null"
  /\ db_' = FALSE
  /\ stmtGetByPath_' = "null"
  /\ ret' = Outcome("CloseDatabase", "ok", <<>>, <<>>, <<>>)
  /\ UNCHANGED <<items, upserted>>
  /\ UNCHANGED <<concVars, deepVars>>

ResetDatabase ==
  /\ UNCHANGED <<concVars, deepVars>>
  /\ IF globalDb = "null"
     THEN /\ ret' = Outcome("ResetDatabase", NotOpen, <<>>, <<>>, <<>>)
          /\ UNCHANGED <<globalDb, db_, stmtGetByPath_, items, upserted>>
     ELSE /\ items' = reset(db_, items, stmtGetByPath_)
          /\ upserted' = IF db_ THEN {} ELSE upserted
          /\ ret' = Outcome("ResetDatabase", "ok", <<>>, <<>>, items)
          /\ UNCHANGED <<globalDb, db_, stmtGetByPath_>>

UpsertItems(batch) ==
  /\ UNCHANGED <<concVars, deepVars>>
  /\ IF globalDb = "null"
     THEN /\ ret' = Outcome("UpsertItems", NotOpen, batch, <<>>, <<>>)
          /\ UNCHANGED <<globalDb, db_, stmtGetByPath_, items, upserted>>
     ELSE /\ items' = upsertItems(db_, items, batch)
          /\ upserted' = IF db_
                         THEN upserted \cup {batch[i].path : i \in
                                {j \in 1..Len(batch) : ValidType(batch[j])}}
                         ELSE upserted
          /\ ret' = Outcome("UpsertItems", "ok", batch, <<>>, items)
          /\ UNCHANGED <<globalDb, db_, stmtGetByPath_>>

\* UpsertItems where the engine answers the steps of the batch with rcs
UpsertItemsRc(batch, rcs) ==
  /\ UNCHANGED <<concVars, deepVars>>
  /\ IF globalDb = "null"
     THEN /\ ret' = Outcome("UpsertItemsRc", NotOpen, batch, rcs, <<>>)
          /\ UNCHANGED <<globalDb, db_, stmtGetByPath_, items, upserted>>
     ELSE /\ items' = upsertItemsRc(db_, items, batch, rcs)
          /\ upserted' = IF db_
                         THEN upserted \cup {batch[i].path : i \in
                                {j \in 1..Len(batch) : ValidType(batch[j])}}
                         ELSE upserted
          /\ ret' = Outcome("UpsertItemsRc", "ok", batch, rcs, items)
          /\ UNCHANGED <<globalDb, db_, stmtGetByPath_>>

GetItemByPath(path) ==
  /\ UNCHANGED <<concVars, deepVars>>
  /\ IF globalDb = "null"
     THEN /\ ret' = Outcome("GetItemByPath", NotOpen, <<path>>, <<>>, <<>>)
          /\ UNCHANGED <<globalDb, db_, stmtGetByPath_, items, upserted>>
     ELSE LET rec == getItemByPath(db_, items, path) IN
          /\ ret' = Outcome("GetItemByPath", "ok", <<path>>, rec, <<>>)
          /\ stmtGetByPath_' = IF ~db_ THEN stmtGetByPath_
                               ELSE IF rec # <<>> THEN "row" ELSE "ready"
          /\ UNCHANGED <<globalDb, db_, items, upserted>>

GetChildren(parent, limit, offset, sort, includeFiles) ==
  /\ UNCHANGED <<concVars, deepVars>>
  /\ LET args == <<parent, limit, offset, sort, includeFiles>> IN
     /\ ret' = IF globalDb = "null"
               THEN Outcome("GetChildren", NotOpen, args, <<>>, <<>>)
               ELSE Outcome("GetChildren", "ok", args,
                      getChildren(db_, items, parent, limit, offset, sort, includeFiles),
                      <<>>)
     /\ UNCHANGED <<globalDb, db_, stmtGetByPath_, items, upserted>>

GetRoots(limit, sort) ==
  /\ ret' = IF globalDb = "null"
            THEN Outcome("GetRoots", NotOpen, <<limit, sort>>, <<>>, <<>>)
            ELSE Outcome("GetRoots", "ok", <<limit, sort>>,
                         getRoots(db_, items, limit, sort), <<>>)
  /\ UNCHANGED <<globalDb, db_, stmtGetByPath_, items, upserted>>
  /\ UNCHANGED <<concVars, deepVars>>

GetTop(type, limit) ==
  /\ ret' = IF globalDb = "null"
            THEN Outcome("GetTop", NotOpen, <<type, limit>>, <<>>, <<>>)
            ELSE Outcome("GetTop", "ok", <<type, limit>>,
                         getTop(db_, items, type, limit), <<>>)
  /\ UNCHANGED <<globalDb, db_, stmtGetByPath_, items, upserted>>
  /\ UNCHANGED <<concVars, deepVars>>

\* Database::vacuum called on the addon's Database object (no export of the
\* addon calls it)
Vacuum ==
  /\ globalDb = "set"
  /\ items' = vacuum(db_, items)
  /\ ret' = Outcome("vacuum", "ok", <<>>, <<>>, items)
  /\ UNCHANGED <<globalDb, db_, stmtGetByPath_, upserted>>
  /\ UNCHANGED <<concVars, deepVars>>

\* ScanShallow: scan, then upsert only if there is a Database and the scan
\* returned records; the run id is returned in every case
ScanShallow(startPath) ==
  /\ UNCHANGED <<concVars, deepVars>>
  /\ LET scanned == scanShallow(startPath, "scan") IN
     /\ ret' = Outcome("ScanShallow", "ok", <<startPath>>, scanned, items)
     /\ IF globalDb = "set" /\ scanned # <<>>
        THEN /\ items' = upsertItems(db_, items, scanned)
             /\ upserted' = IF db_
                            THEN upserted \cup {scanned[i].path : i \in 1..Len(scanned)}
                            ELSE upserted
        ELSE UNCHANGED <<items, upserted>>
     /\ UNCHANGED <<globalDb, db_, stmtGetByPath_>>

\* ------------------------------------------------------------------------
\* Specifications
\* ------------------------------------------------------------------------

\* the store under every addon call, over the records Nodes
Next ==
  \/ OpenDatabase
  \/ CloseDatabase
  \/ ResetDatabase
  \/ \E batch \in Batches : UpsertItems(batch)
  \/ \E path \in Paths : GetItemByPath(path)
  \/ \E parent \in {NULL, pM} : GetChildren(parent, 200, 0, "size_desc", TRUE)
  \/ GetRoots(200, "size_desc")
  \/ \E type \in Types : GetTop(type, 100)
  \/ \E startPath \in ScanPaths : ScanShallow(startPath)

Spec == Init /\ [][Next]_vars

\* the queries over the records QNodes, upserted one at a time in any order
NextQ ==
  \/ OpenDatabase
  \/ ResetDatabase
  \/ \E n \in QNodes : UpsertItems(<<n>>)
  \/ \E parent \in {NULL, pM}, limit \in Limits, offset \in Offsets,
        sort \in Sorts, includeFiles \in BOOLEAN :
        GetChildren(parent, limit, offset, sort, includeFiles)
  \/ \E limit \in Limits \cup {200}, sort \in Sorts : GetRoots(limit, sort)

SpecQ == Init /\ [][NextQ]_vars

\* batches of three records whose steps the engine may fail
RcBatches == {<<N1, N5, Q3>>, <<N5, N2, N1>>, <<Q3, N8, N5>>}
RcCodes   == {<<a, b, c>> : a \in StepCodes, b \in StepCodes, c \in StepCodes}

NextRc ==
  \/ OpenDatabase
  \/ \E batch \in RcBatches, rcs \in RcCodes : UpsertItemsRc(batch, rcs)
  \/ \E path \in {pA, pC, pAB} : GetItemByPath(path)

SpecRc == Init /\ [][NextRc]_vars

\* records as the orchestrator passes them to UpsertItems: the addon reads
\* sizeBytes with Int64Value() and the counts with Int32Value(), whatever the
\* number is
P1 == ItemRecord(pA, Empty, "File", 3, 1, 0, "L1", "", 0, "r1")
P2 == ItemRecord(pAB, pA, "File", 1, 1, 0, "L1", "", 1, "r1")
P3 == ItemRecord(pC, pM, "File", 3, 1, 0, "L1", "", 1, "r1")
P4 == ItemRecord(pX, pM, "Folder", 2, 0, 0, "L1", "", 1, "r1")
P5 == ItemRecord(pU, Empty, "File", -5, -1, -1, "L1", "", 0, "r1")
P6 == ItemRecord(pAB, pA, "File", 4, 1, 0, "L1", "", 1, "r2")
PNodes == {P1, P2, P3, P4, P5, P6}

\* getTop over the records PNodes, upserted one at a time in any order
NextTop ==
  \/ OpenDatabase
  \/ \E n \in PNodes : UpsertItems(<<n>>)
  \/ \E type \in Types, limit \in Limits \cup {100} : GetTop(type, limit)

SpecTop == Init /\ [][NextTop]_vars

\* the calls of Spec together with Database::vacuum
NextKeep ==
  \/ Next
  \/ Vacuum

SpecKeep == Init /\ [][NextKeep]_vars

\* rows that an earlier deep scan of /d has left, with its timestamp
S1 == ItemRecord(pD, Empty, "Folder", 999, 9, 9, "L0", "T1", 0, "deep")
S2 == ItemRecord(pDF, pD, "File", 1, 1, 0, "L0", "T1", 1, "deep")
S3 == ItemRecord(pDS, pD, "Folder", 2, 1, 0, "L0", "", 1, "old")

\* start paths of a shallow scan: two directories, a path that does not
\* exist, a regular file
ShallowPaths == {pC, pD, pM, pDF}

\* shallow scans over a store that holds rows of earlier scans
NextScan ==
  \/ OpenDatabase
  \/ CloseDatabase
  \/ \E n \in {S1, S2, S3} : UpsertItems(<<n>>)
  \/ \E path \in {pD, pDF} : GetItemByPath(path)
  \/ \E startPath \in ShallowPaths : ScanShallow(startPath)

SpecScan == Init /\ [][NextScan]_vars

\* ------------------------------------------------------------------------
\* Threads calling the methods of one open Database (native/src/database.cc)
\* ------------------------------------------------------------------------
MaxCalls == 2

N6 == ItemRecord(pC, Empty, "File", 3, 1, 0, "L2", "T2", 0, "r2")
ConcBatches == {<<N1, N5>>, <<N6, N2>>}
ReadOps == {"getItemByPath", "getChildren", "getRoots", "getTop"}

\* the calls a thread can make
Calls ==
  {[op |-> "upsertItems", args |-> b] : b \in ConcBatches}
    \cup {[op |-> "getItemByPath", args |-> <<pA>>],
          [op |-> "getChildren", args |-> <<pM, 200, 0, "size_desc", TRUE>>],
          [op |-> "getRoots", args |-> <<200, "size_desc">>],
          [op |-> "getTop", args |-> <<"Folder", 100>>]}

\* some thread has applied a part of its batch and not yet committed
MidBatch == \E t \in Threads : pc[t] = "loop" /\ job[t].idx > 1

\* a guard that excludes nobody: a thread proceeds whoever holds the mutex
LockGuard_NoMutex(m) == TRUE

\* std::lock_guard<std::mutex> lock(mutex_): proceeds only when no thread
\* holds the mutex
LockGuard(m) == m = 0

\* the store after a successful open()
InitConc ==
  /\ globalDb = "set"
  /\ db_ = TRUE
  /\ stmtGetByPath_ = "ready"
  /\ items = <<>>
  /\ ret = Outcome("OpenDatabase", "ok", <<>>, <<>>, <<>>)
  /\ upserted = {}
  /\ mutex_ = 0
  /\ pc = [t \in Threads |-> "idle"]
  /\ job = [t \in Threads |-> NoJob]
  /\ seen = [t \in Threads |-> NoRead]
  /\ committed = <<>>
  /\ order = <<>>
  /\ fsId = 1
  /\ ScannerInit

\* a thread enters a Database method
Call(t, c) ==
  /\ UNCHANGED deepVars
  /\ pc[t] = "idle"
  /\ job[t].calls < MaxCalls
  /\ pc' = [pc EXCEPT ![t] = "lock"]
  /\ job' = [job EXCEPT ![t] = [op |-> c.op, args |-> c.args, idx |-> 0,
                                midBatch |-> MidBatch, calls |-> @.calls + 1]]
  /\ UNCHANGED <<storeVars, mutex_, seen, committed, order>>

\* the lock_guard at the top of every method
Lock(t) ==
  /\ UNCHANGED deepVars
  /\ pc[t] = "lock"
  /\ LockGuard(mutex_)
  /\ mutex_' = t
  /\ pc' = [pc EXCEPT ![t] = "body"]
  /\ UNCHANGED <<storeVars, job, seen, committed, order>>

\* upsertItems: the early return, or BEGIN TRANSACTION
UpsertBegin(t) ==
  /\ UNCHANGED deepVars
  /\ pc[t] = "body" /\ job[t].op = "upsertItems"
  /\ IF ~db_ \/ job[t].args = <<>>
     THEN /\ pc' = [pc EXCEPT ![t] = "idle"]
          /\ mutex_' = 0
          /\ UNCHANGED job
     ELSE /\ pc' = [pc EXCEPT ![t] = "loop"]
          /\ job' = [job EXCEPT ![t].idx = 1]
          /\ UNCHANGED mutex_
  /\ UNCHANGED <<storeVars, seen, committed, order>>

\* upsertItems: one iteration of the for loop
UpsertStep(t) ==
  /\ UNCHANGED deepVars
  /\ pc[t] = "loop" /\ job[t].idx <= Len(job[t].args)
  /\ items' = upsertLoop(items, <<job[t].args[job[t].idx]>>)
  /\ job' = [job EXCEPT ![t].idx = @ + 1]
  /\ UNCHANGED <<globalDb, db_, stmtGetByPath_, ret, upserted,
                 mutex_, pc, seen, committed, order>>

\* upsertItems: COMMIT and return, which releases the mutex
UpsertCommit(t) ==
  /\ UNCHANGED deepVars
  /\ pc[t] = "loop" /\ job[t].idx > Len(job[t].args)
  /\ committed' = items
  /\ order' = Append(order, [batch |-> job[t].args, midBatch |-> job[t].midBatch])
  /\ mutex_' = 0
  /\ pc' = [pc EXCEPT ![t] = "idle"]
  /\ UNCHANGED <<storeVars, job, seen>>

\* a query method: the statement runs and the method returns
Read(t) ==
  /\ UNCHANGED deepVars
  /\ pc[t] = "body" /\ job[t].op \in ReadOps
  /\ LET a == job[t].args
         val == CASE job[t].op = "getItemByPath" -> getItemByPath(db_, items, a[1])
                  [] job[t].op = "getChildren" ->
                       getChildren(db_, items, a[1], a[2], a[3], a[4], a[5])
                  [] job[t].op = "getRoots" -> getRoots(db_, items, a[1], a[2])
                  [] OTHER -> getTop(db_, items, a[1], a[2])
     IN  /\ seen' = [seen EXCEPT ![t] = [op |-> job[t].op, val |-> val,
                                        partial |-> items # committed,
                                        midBatch |-> job[t].midBatch]]
         /\ stmtGetByPath_' = IF job[t].op = "getItemByPath"
                              THEN (IF val # <<>> THEN "row" ELSE "ready")
                              ELSE stmtGetByPath_
  /\ mutex_' = 0
  /\ pc' = [pc EXCEPT ![t] = "idle"]
  /\ UNCHANGED <<globalDb, db_, items, ret, upserted, job, committed, order>>

NextConc ==
  \E t \in Threads :
     \/ \E c \in Calls : Call(t, c)
     \/ Lock(t)
     \/ UpsertBegin(t)
     \/ UpsertStep(t)
     \/ UpsertCommit(t)
     \/ Read(t)

SpecConc == InitConc /\ [][NextConc]_vars

\* ------------------------------------------------------------------------
\* Scanner::scanFullAsync (native/src/scanner.cc) as a stack machine
\* ------------------------------------------------------------------------
PROGRESS_INTERVAL    == 5000
MIN_FILE_SIZE_FOR_DB == 100 * 1024

\* a directory entry, and a directory: its entries in listing order and the
\* number of entries after which the directory_iterator throws (0: already
\* when it is constructed, -1: never)
Entry(path, kind, size, lwt) == [path |-> path, kind |-> kind, size |-> size, lwt |-> lwt]
Dir(entries, failAt) == [entries |-> entries, failAt |-> failAt]
Sub(dir, name) == dir \o <<"/", name>>

pR  == <<"/", "r">>
pRD == Sub(pR, "d")
pRE == Sub(pRD, "e")
pRU == Sub(pR, "u")
pRP == Sub(pR, "p")
pO  == <<"/", "o">>
pB  == <<"/", "b">>
pBS == Sub(pB, "s")

\* tree 1: every entry readable; files of 150 KiB, 50 KiB, exactly 100 KiB
\* and one byte less, a symbolic link, an empty directory
Tree1 ==
  (pR  :> Dir(<<Entry(Sub(pR, "f"), "file", 153600, 3000),
                Entry(pRD, "dir", 0, 0),
                Entry(Sub(pR, "l"), "other", 0, 0),
                Entry(Sub(pR, "g"), "file", 51200, 1000)>>, -1)) @@
  (pRD :> Dir(<<Entry(Sub(pRD, "f"), "file", 102400, 5000),
                Entry(pRE, "dir", 0, 0),
                Entry(Sub(pRD, "g"), "file", 102399, 2000)>>, -1)) @@
  (pRE :> Dir(<<>>, -1))

\* tree 2: /r/u cannot be listed, the listing of /r/p fails after its first
\* entry, the status of /r/x cannot be read
Tree2 ==
  (pR  :> Dir(<<Entry(pRU, "dir", 0, 0),
                Entry(Sub(pR, "f"), "file", 153600, 3000),
                Entry(pRP, "dir", 0, 0),
                Entry(Sub(pR, "x"), "error", 0, 0),
                Entry(Sub(pR, "g"), "file", 51200, 4000)>>, -1)) @@
  (pRU :> Dir(<<Entry(Sub(pRU, "f"), "file", 7, 9000)>>, 0)) @@
  (pRP :> Dir(<<Entry(Sub(pRP, "f"), "file", 11, 2000),
                Entry(Sub(pRP, "g"), "file", 13, 8000)>>, 1))

\* tree 3: a directory of PROGRESS_INTERVAL small files, then a large file
Tree3 ==
  (pB  :> Dir(<<Entry(pBS, "dir", 0, 0),
                Entry(Sub(pB, "z"), "file", 153600, 3000)>>, -1)) @@
  (pBS :> Dir([i \in 1..PROGRESS_INTERVAL |->
                 Entry(Sub(pBS, ToString(i)), "file", 1, 1000)], -1))

\* tree 4: one file, last written before the epoch
Tree4 ==
  (pO :> Dir(<<Entry(Sub(pO, "f"), "file", 153600, -1000)>>, -1))

\* how many times the system follows the symbolic link of tree 5 within one
\* path before opening the directory fails
MaxNest == 3

pK == <<"/", "k">>

\* /k, /k/k, /k/k/k, ...
RECURSIVE Loop(_)
Loop(i) == IF i = 0 THEN pK ELSE Sub(Loop(i - 1), "k")

\* tree 5: /k holds a file and the symbolic link /k/k to /k itself;
\* is_directory() follows the link, so every /k/.../k lists like /k
Tree5 ==
  [p \in {Loop(i) : i \in 0..MaxNest} |->
     Dir(<<Entry(Sub(p, "f"), "file", 153600, 3000),
           Entry(Sub(p, "k"), "dir", 0, 0)>>, -1)]

TreeIds == 1..5
DeepFs(id) == CASE id = 1 -> Tree1 [] id = 2 -> Tree2 [] id = 3 -> Tree3
                [] id = 4 -> Tree4 [] OTHER -> Tree5
Root(id) == CASE id = 3 -> pB [] id = 4 -> pO [] id = 5 -> pK [] OTHER -> pR

\* cancelled.load() always sees FALSE
cancelled_load_Never(flag) == FALSE

\* cancelled.load()
cancelled_load(flag) == flag

\* the file branch: size, count and latest write time of the level
addFile(result, size, lwt) ==
  [result EXCEPT !.sizeBytes = @ + size,
                 !.fileCount = @ + 1,
                 !.latestMs = IF lwt > @ THEN lwt ELSE @]

\* the aggregate of the subdirectory is dropped, only the directory counts
fold_Flat(result, subResult) == [result EXCEPT !.folderCount = @ + 1]

\* the directory branch after the recursive call returned
fold(result, subResult) ==
  [result EXCEPT !.sizeBytes = @ + subResult.sizeBytes,
                 !.fileCount = @ + subResult.fileCount,
                 !.folderCount = @ + subResult.folderCount + 1,
                 !.latestMs = IF subResult.latestMs > @ THEN subResult.latestMs ELSE @]

\* a handler that throws the partial aggregate away
catchDir_Discard(result) == ZeroResult

\* the outer catch (...): the level returns what it has accumulated
catchDir(result) == result

\* the record of a file of at least MIN_FILE_SIZE_FOR_DB bytes
fileRecord(entry, startPath, depth) ==
  ItemRecord(entry.path, startPath, "File", entry.size, 1, 0,
             toIsoString(entry.lwt), toIsoString(NowMs), depth + 1, "run")

\* an activation of scanFullAsync(startPath, depth, ...) at its first line
Frame(startPath, depth) ==
  [startPath |-> startPath, depth |-> depth, pc |-> "enter", idx |-> 0,
   result |-> ZeroResult, batchItems |-> <<>>]

Top == stack[Len(stack)]
SetTop(frame) == [stack EXCEPT ![Len(stack)] = frame]
TopDir == DeepFs(fsId)[Top.startPath]

\* ++it at the end of an iteration: the next entry, or the exception that
\* the outer handler turns into a return
next(frame, dir) ==
  IF dir.failAt = frame.idx
  THEN [frame EXCEPT !.pc = "ret", !.result = catchDir(@)]
  ELSE [frame EXCEPT !.pc = "top", !.idx = @ + 1]

\* the store is open and empty, a Scanner is constructed, a tree is chosen
InitDeep ==
  /\ globalDb = "set"
  /\ db_ = TRUE
  /\ stmtGetByPath_ = "ready"
  /\ items = <<>>
  /\ ret = Outcome("OpenDatabase", "ok", <<>>, <<>>, <<>>)
  /\ upserted = {}
  /\ mutex_ = 0
  /\ pc = [t \in Threads |-> "idle"]
  /\ job = [t \in Threads |-> NoJob]
  /\ seen = [t \in Threads |-> NoRead]
  /\ committed = <<>>
  /\ order = <<>>
  /\ fsId \in TreeIds
  /\ ScannerInit

\* the caller starts scanFullAsync(root, 0, ...)
StartScan ==
  /\ stack = <<>> /\ scanResult = NoResult
  /\ stack' = <<Frame(Root(fsId), 0)>>
  /\ hist' = [hist EXCEPT !.flagAtStart = cancelled]
  /\ UNCHANGED <<storeVars, concVars, fsId, cancelled, itemsScanned_,
                 lastProgressUpdate_, scanResult, progress>>

\* another thread sets the cancellation flag
Cancel ==
  /\ ~cancelled /\ scanResult = NoResult
  /\ cancelled' = TRUE
  /\ UNCHANGED <<storeVars, concVars, fsId, itemsScanned_, lastProgressUpdate_,
                 stack, scanResult, progress, hist>>

\* if (cancelled.load()) return result;
Enter ==
  /\ stack # <<>> /\ Top.pc = "enter"
  /\ stack' = SetTop([Top EXCEPT !.pc = IF cancelled_load(cancelled)
                                        THEN "ret" ELSE "open"])
  /\ UNCHANGED <<storeVars, concVars, fsId, cancelled, itemsScanned_,
                 lastProgressUpdate_, scanResult, progress, hist>>

\* fs::directory_iterator(startPath, skip_permission_denied)
OpenDir ==
  /\ stack # <<>> /\ Top.pc = "open"
  /\ stack' = SetTop(IF Top.startPath \notin DOMAIN DeepFs(fsId) \/ TopDir.failAt = 0
                     THEN [Top EXCEPT !.pc = "ret", !.result = catchDir(@)]
                     ELSE [Top EXCEPT !.pc = "top", !.idx = 1])
  /\ hist' = [hist EXCEPT !.lateDirs = @ + (IF cancelled THEN 1 ELSE 0)]
  /\ UNCHANGED <<storeVars, concVars, fsId, cancelled, itemsScanned_,
                 lastProgressUpdate_, scanResult, progress>>

\* the loop condition, then if (cancelled.load()) break;
LoopTop ==
  /\ stack # <<>> /\ Top.pc = "top"
  /\ stack' = SetTop([Top EXCEPT !.pc =
                        IF Top.idx > Len(TopDir.entries) THEN "ret"
                        ELSE IF cancelled_load(cancelled) THEN "ret"
                        ELSE "body"])
  /\ UNCHANGED <<storeVars, concVars, fsId, cancelled, itemsScanned_,
                 lastProgressUpdate_, scanResult, progress, hist>>

\* the inner try block up to the progress report
Body ==
  /\ stack # <<>> /\ Top.pc = "body"
  /\ LET entry == TopDir.entries[Top.idx] IN
     CASE entry.kind = "file" ->
            /\ stack' = SetTop([Top EXCEPT
                 !.result = addFile(@, entry.size, entry.lwt),
                 !.batchItems = IF entry.size >= MIN_FILE_SIZE_FOR_DB
                                THEN Append(@, fileRecord(entry, Top.startPath, Top.depth))
                                ELSE @,
                 !.pc = "progress"])
            /\ itemsScanned_' = itemsScanned_ + 1
            /\ hist' = [hist EXCEPT !.files = @ + 1, !.size = @ + entry.size,
                                    !.lateFiles = @ + (IF cancelled THEN 1 ELSE 0),
                                    !.emitted = IF entry.size >= MIN_FILE_SIZE_FOR_DB
                                                THEN Append(@, fileRecord(entry, Top.startPath, Top.depth))
                                                ELSE @]
       [] entry.kind = "dir" ->
            /\ stack' = Append(SetTop([Top EXCEPT !.pc = "call"]),
                               Frame(entry.path, Top.depth + 1))
            /\ UNCHANGED <<itemsScanned_, hist>>
       [] entry.kind = "other" ->
            /\ stack' = SetTop([Top EXCEPT !.pc = "progress"])
            /\ UNCHANGED <<itemsScanned_, hist>>
       [] OTHER ->
            \* the entry throws: catch (...) { continue; }
            /\ stack' = SetTop(next(Top, TopDir))
            /\ UNCHANGED <<itemsScanned_, hist>>
  /\ UNCHANGED <<storeVars, concVars, fsId, cancelled, lastProgressUpdate_,
                 scanResult, progress>>

\* the progress report at the end of the inner try block, then ++it
Progress ==
  /\ stack # <<>> /\ Top.pc = "progress"
  /\ LET current == itemsScanned_
         lastUpdate == lastProgressUpdate_
     IN  IF current - lastUpdate >= PROGRESS_INTERVAL
         THEN /\ lastProgressUpdate_' = current
              /\ progress' = Append(progress,
                   [runId |-> "run", itemsScanned |-> current,
                    currentPath |-> Top.startPath, state |-> "running",
                    afterCancel |-> cancelled])
         ELSE UNCHANGED <<lastProgressUpdate_, progress>>
  /\ stack' = SetTop(next(Top, TopDir))
  /\ UNCHANGED <<storeVars, concVars, fsId, cancelled, itemsScanned_,
                 scanResult, hist>>

\* return result; batchItems goes out of scope.  The caller folds the
\* aggregate into its own, the outermost call hands it to the caller
Return ==
  /\ stack # <<>> /\ Top.pc = "ret"
  /\ IF Len(stack) = 1
     THEN /\ scanResult' = Top.result
          /\ stack' = <<>>
     ELSE LET caller == stack[Len(stack) - 1] IN
          /\ stack' = Append(SubSeq(stack, 1, Len(stack) - 2),
                             [caller EXCEPT !.result = fold(@, Top.result),
                                            !.pc = "progress"])
          /\ UNCHANGED scanResult
  /\ UNCHANGED <<storeVars, concVars, fsId, cancelled, itemsScanned_,
                 lastProgressUpdate_, progress, hist>>

NextDeep ==
  \/ StartScan
  \/ Cancel
  \/ Enter
  \/ OpenDir
  \/ LoopTop
  \/ Body
  \/ Progress
  \/ Return

SpecDeep == InitDeep /\ [][NextDeep]_vars

\* the thread that runs the scan is never stopped for ever
ScanStep == Enter \/ OpenDir \/ LoopTop \/ Body \/ Progress \/ Return
SpecDeepFair == InitDeep /\ [][NextDeep]_vars /\ WF_vars(ScanStep)

\* ------------------------------------------------------------------------
\* The progress report of scanFullAsync (native/src/scanner.cc) when two
\* threads scan with the same Scanner: each thread lists a directory of plain
\* files, so that an iteration is itemsScanned_++ followed by the report
\* ------------------------------------------------------------------------

\* the number of files in the directory of each thread: the second thread
\* alone stays one file short of the second report
ProgFiles == <<1, 2 * PROGRESS_INTERVAL - 1>>

\* how many increments of the other thread may fall between the loads of a
\* thread and its compare_exchange_strong
MaxLag == 2

ProgJob(t) ==
  [op |-> "scanFullAsync", startPath |-> Sub(pB, ToString(t)), left |-> ProgFiles[t],
   current |-> 0, lastUpdate |-> 0, lag |-> 0]

\* one Scanner, a cancellation flag that is not set, both threads at the top
\* of the loop over their directory
InitProg ==
  /\ globalDb = "set"
  /\ db_ = TRUE
  /\ stmtGetByPath_ = "ready"
  /\ items = <<>>
  /\ ret = Outcome("OpenDatabase", "ok", <<>>, <<>>, <<>>)
  /\ upserted = {}
  /\ mutex_ = 0
  /\ pc = [t \in Threads |-> "file"]
  /\ job = [t \in Threads |-> ProgJob(t)]
  /\ seen = [t \in Threads |-> NoRead]
  /\ committed = <<>>
  /\ order = <<>>
  /\ fsId = 3
  /\ ScannerInit

\* the loop condition and the file branch: itemsScanned_++
CountFile(t) ==
  /\ pc[t] = "file"
  /\ \A u \in Threads \ {t} : pc[u] \in {"last", "cas"} => job[u].lag < MaxLag
  /\ IF job[t].left = 0
     THEN /\ pc' = [pc EXCEPT ![t] = "done"]
          /\ UNCHANGED <<job, itemsScanned_>>
     ELSE /\ itemsScanned_' = itemsScanned_ + 1
          /\ job' = [u \in Threads |->
                       IF u = t THEN [job[u] EXCEPT !.left = @ - 1]
                       ELSE IF pc[u] \in {"last", "cas"} THEN [job[u] EXCEPT !.lag = @ + 1]
                       ELSE job[u]]
          /\ pc' = [pc EXCEPT ![t] = "current"]
  /\ UNCHANGED <<storeVars, mutex_, seen, committed, order, fsId, cancelled,
                 lastProgressUpdate_, stack, scanResult, progress, hist>>

\* int current = itemsScanned_.load();
LoadCurrent(t) ==
  /\ pc[t] = "current"
  /\ job' = [job EXCEPT ![t].current = itemsScanned_, ![t].lag = 0]
  /\ pc' = [pc EXCEPT ![t] = "last"]
  /\ UNCHANGED <<storeVars, mutex_, seen, committed, order, deepVars>>

\* int lastUpdate = lastProgressUpdate_.load();
\* if (current - lastUpdate >= PROGRESS_INTERVAL); current and lastUpdate
\* end with the iteration
LoadLast(t) ==
  /\ pc[t] = "last"
  /\ IF job[t].current - lastProgressUpdate_ >= PROGRESS_INTERVAL
     THEN /\ job' = [job EXCEPT ![t].lastUpdate = lastProgressUpdate_]
          /\ pc' = [pc EXCEPT ![t] = "cas"]
     ELSE /\ job' = [job EXCEPT ![t].current = 0, ![t].lag = 0]
          /\ pc' = [pc EXCEPT ![t] = "file"]
  /\ UNCHANGED <<storeVars, mutex_, seen, committed, order, deepVars>>

\* if (lastProgressUpdate_.compare_exchange_strong(lastUpdate, current))
CompareExchange(t) ==
  /\ pc[t] = "cas"
  /\ IF lastProgressUpdate_ = job[t].lastUpdate
     THEN /\ lastProgressUpdate_' = job[t].current
          /\ job' = [job EXCEPT ![t].lastUpdate = 0, ![t].lag = 0]
          /\ pc' = [pc EXCEPT ![t] = "deliver"]
     ELSE /\ job' = [job EXCEPT ![t].current = 0, ![t].lastUpdate = 0, ![t].lag = 0]
          /\ pc' = [pc EXCEPT ![t] = "file"]
          /\ UNCHANGED lastProgressUpdate_
  /\ UNCHANGED <<storeVars, mutex_, seen, committed, order, fsId, cancelled,
                 itemsScanned_, stack, scanResult, progress, hist>>

\* progressCb(progress);
Deliver(t) ==
  /\ pc[t] = "deliver"
  /\ progress' = Append(progress,
       [runId |-> "run", itemsScanned |-> job[t].current,
        currentPath |-> job[t].startPath, state |-> "running",
        afterCancel |-> cancelled])
  /\ job' = [job EXCEPT ![t].current = 0]
  /\ pc' = [pc EXCEPT ![t] = "file"]
  /\ UNCHANGED <<storeVars, mutex_, seen, committed, order, fsId, cancelled,
                 itemsScanned_, lastProgressUpdate_, stack, scanResult, hist>>

NextProg ==
  \E t \in Threads :
    \/ CountFile(t)
    \/ LoadCurrent(t)
    \/ LoadLast(t)
    \/ CompareExchange(t)
    \/ Deliver(t)

SpecProg == InitProg /\ [][NextProg]_vars

\* ------------------------------------------------------------------------
\* What a caller can observe of a table through the four queries
\* ------------------------------------------------------------------------
ObsPaths   == {pA, pAB, pX, pC, pU, pM}
ObsParents == {NULL, pA, pM}
ObsLimits  == Limits \cup {200}

Observable(tbl) ==
  [byPath   |-> [p \in ObsPaths |-> getItemByPath(TRUE, tbl, p)],
   children |-> [a \in ObsParents \X ObsLimits \X Offsets \X Sorts \X BOOLEAN |->
                   getChildren(TRUE, tbl, a[1], a[2], a[3], a[4], a[5])],
   roots    |-> [a \in ObsLimits \X Sorts |-> getRoots(TRUE, tbl, a[1], a[2])],
   top      |-> [a \in (Types \cup {"Symlink"}) \X ObsLimits |->
                   getTop(TRUE, tbl, a[1], a[2])]]

\* every query answers empty / not found
AllEmpty(tbl) ==
  LET o == Observable(tbl) IN
  /\ \A p \in DOMAIN o.byPath : o.byPath[p] = <<>>
  /\ \A a \in DOMAIN o.children : o.children[a] = <<>>
  /\ \A a \in DOMAIN o.roots : o.roots[a] = <<>>
  /\ \A a \in DOMAIN o.top : o.top[a] = <<>>

StoreOpen == globalDb = "set" /\ db_

\* the last call was UpsertItems of the single valid record on an open store
UpsertedOne ==
  /\ ret.op = "UpsertItems" /\ ret.out = "ok" /\ StoreOpen
  /\ Len(ret.args) = 1 /\ ValidType(ret.args[1])

\* ------------------------------------------------------------------------
\* C1
\* ------------------------------------------------------------------------

\* C1 (sticky freshness): after upsertBatch([n]) of a valid node n whose path
\* already had a row, getByPath(n.path) returns n's parent, kind, sizeBytes,
\* fileCount, folderCount, lastModifiedAt, depth and runId, and its indexedAt
\* is n.indexedAt if that is non-empty and the previously stored indexedAt
\* otherwise.
C1_StickyFreshness ==
  (UpsertedOne /\ RowIndex(ret.pre, ret.args[1].path) # 0) =>
    LET n   == ret.args[1]
        old == ret.pre[RowIndex(ret.pre, n.path)]
        got == getItemByPath(TRUE, items, n.path)
    IN  /\ Len(got) = 1
        /\ got[1].path = n.path
        /\ got[1].parent = n.parent
        /\ got[1].type = n.type
        /\ got[1].sizeBytes = n.sizeBytes
        /\ got[1].fileCount = n.fileCount
        /\ got[1].folderCount = n.folderCount
        /\ got[1].lastWriteUtc = n.lastWriteUtc
        /\ got[1].depth = n.depth
        /\ got[1].runId = n.runId
        /\ got[1].scannedUtc = IF n.scannedUtc # "" THEN n.scannedUtc
                               ELSE old.scannedUtc

\* a record without timestamp has just replaced a row that carried one, and
\* the row still carries it next to the new columns
C1_Witness ==
  /\ UpsertedOne
  /\ ret.args[1] = N2
  /\ RowIndex(ret.pre, pA) # 0
  /\ ret.pre[RowIndex(ret.pre, pA)].scannedUtc = "T1"
  /\ ret.pre[RowIndex(ret.pre, pA)].sizeBytes = 2
  /\ items[RowIndex(items, pA)].scannedUtc = "T1"
  /\ items[RowIndex(items, pA)].sizeBytes = 3

\* ------------------------------------------------------------------------
\* C2
\* ------------------------------------------------------------------------

\* C2 (idempotent upsert): in the state reached by upsertBatch([n]) of a valid
\* node n, performing upsertBatch([n]) once more leaves every answer of
\* getByPath, getChildren, getRoots and getTop as it is.
C2_IdempotentUpsert ==
  UpsertedOne =>
    Observable(upsertItems(TRUE, items, ret.args)) = Observable(items)

\* the first upsert changed the table: it replaced a row that carried a
\* timestamp by a record that carries another one
C2_Witness ==
  /\ UpsertedOne
  /\ ret.args[1] = N3
  /\ RowIndex(ret.pre, pA) # 0
  /\ ret.pre[RowIndex(ret.pre, pA)].scannedUtc = "T1"
  /\ items[RowIndex(items, pA)].scannedUtc = "T2"
  /\ Len(items) = 2

\* ------------------------------------------------------------------------
\* C3
\* ------------------------------------------------------------------------

\* C3 (one row per path): no two rows of the table have the same path, and
\* the number of rows equals the number of distinct valid paths upserted
\* since the last reset.
C3_OneRowPerPath ==
  /\ \A i, j \in 1..Len(items) : items[i].path = items[j].path => i = j
  /\ Len(items) = Cardinality(upserted)

\* ------------------------------------------------------------------------
\* C4
\* ------------------------------------------------------------------------

\* the string p is a prefix of the string s
IsPrefix(p, s) == Len(p) <= Len(s) /\ SubSeq(s, 1, Len(p)) = p

\* the paths of the rows the claim calls roots
ClaimedRoots(tbl) ==
  LET paths == {tbl[i].path : i \in 1..Len(tbl)}
      parentless == {tbl[i].path : i \in {j \in 1..Len(tbl) : tbl[j].parent = NULL}}
  IN  {tbl[i].path : i \in {j \in 1..Len(tbl) :
         \/ tbl[j].parent = NULL
         \/ /\ tbl[j].parent \notin paths
            /\ ~\E q \in parentless : IsPrefix(q, tbl[j].path)}}

\* C4 (root inference): getRoots with a limit of at least the number of rows
\* returns exactly the rows that have no parent, or whose declared parent is
\* not a stored path and whose path has no parentless row's path as a prefix;
\* a row whose declared parent is stored is never returned.
C4_RootInference ==
  (ret.op = "GetRoots" /\ ret.out = "ok" /\ StoreOpen /\ ret.args[1] >= Len(items)) =>
    /\ {ret.val[k].path : k \in 1..Len(ret.val)} = ClaimedRoots(items)
    /\ Len(ret.val) = Cardinality(ClaimedRoots(items))
    /\ \A k \in 1..Len(ret.val) :
         ret.val[k].parent \notin {items[i].path : i \in 1..Len(items)}

\* ------------------------------------------------------------------------
\* C5
\* ------------------------------------------------------------------------

\* indices of the rows of tbl that getChildren(parent, .., includeFiles) is
\* to list
ChildMatch(tbl, parent, includeFiles) ==
  {i \in 1..Len(tbl) :
     /\ IF parent = NULL THEN tbl[i].parent = NULL ELSE tbl[i].parent = parent
     /\ includeFiles \/ tbl[i].type # "File"}

\* x comes strictly before y in the requested order
StrictlyBefore(sort, x, y) ==
  IF sort = "name_asc" THEN TextLess(x.path, y.path) ELSE x.sizeBytes > y.sizeBytes

\* val is the page [offset, offset + limit) of the matching rows of tbl in the
\* requested order
IsPage(tbl, parent, limit, offset, sort, includeFiles, val) ==
  LET match == ChildMatch(tbl, parent, includeFiles)
      m == Cardinality(match)
      positions == {k \in offset..(offset + limit - 1) : k >= 0 /\ k < m}
  IN  /\ Len(val) = Cardinality(positions)
      /\ \A k \in 1..Len(val) :
           \E i \in match :
              /\ val[k].path = tbl[i].path
              /\ val[k].type = tbl[i].type
              /\ val[k].sizeBytes = tbl[i].sizeBytes
              /\ val[k].parent = IF parent = NULL THEN Empty ELSE parent
      /\ \A k, l \in 1..Len(val) : val[k].path = val[l].path => k = l
      /\ \A k \in 1..(Len(val) - 1) :
           IF sort = "name_asc" THEN TextLess(val[k].path, val[k + 1].path)
           ELSE val[k].sizeBytes >= val[k + 1].sizeBytes
      /\ \A k \in 1..Len(val) :
           /\ Cardinality({i \in match : StrictlyBefore(sort, tbl[i], val[k])})
                <= offset + k - 1
           /\ Cardinality({i \in match : ~StrictlyBefore(sort, val[k], tbl[i])})
                >= offset + k

\* the pages at the offsets 0, limit, 2*limit, ... one after the other
RECURSIVE PagesFrom(_, _, _, _, _, _)
PagesFrom(tbl, parent, limit, offset, sort, includeFiles) ==
  IF offset >= Len(tbl) THEN <<>>
  ELSE getChildren(TRUE, tbl, parent, limit, offset, sort, includeFiles)
       \o PagesFrom(tbl, parent, limit, offset + limit, sort, includeFiles)

\* paging with consecutive offsets lists every matching row exactly once
PagingComplete(tbl, parent, limit, sort, includeFiles) ==
  LET all == PagesFrom(tbl, parent, limit, 0, sort, includeFiles)
      match == ChildMatch(tbl, parent, includeFiles)
  IN  /\ Len(all) = Cardinality(match)
      /\ {all[k].path : k \in 1..Len(all)} = {tbl[i].path : i \in match}

GotChildren == ret.op = "GetChildren" /\ ret.out = "ok" /\ StoreOpen

\* C5 as stated: for every limit, getChildren returns the rows at the
\* positions offset .. offset+limit-1 of the matching rows in the requested
\* order.
C5_PageOfChildren_Original ==
  GotChildren =>
    IsPage(items, ret.args[1], ret.args[2], ret.args[3], ret.args[4],
           ret.args[5], ret.val)

\* C5 (amended): for a limit >= 0, getChildren returns only rows whose parent
\* is the given path (no parent when it is absent), no File row when
\* includeFiles is false, ordered by sizeBytes descending or by path
\* ascending, and exactly the rows at the positions offset .. offset+limit-1
\* of that order; for a limit >= 1 the pages at consecutive offsets list every
\* matching row exactly once.  (A negative limit returns every row from
\* offset on.)
C5_PageOfChildren ==
  GotChildren =>
    /\ ret.args[2] >= 0 =>
         IsPage(items, ret.args[1], ret.args[2], ret.args[3], ret.args[4],
                ret.args[5], ret.val)
    /\ ret.args[2] >= 1 =>
         PagingComplete(items, ret.args[1], ret.args[2], ret.args[4], ret.args[5])

\* the second page of one row, of two children of /m, by path
C5_Witness ==
  /\ GotChildren
  /\ ret.args = <<pM, 1, 1, "name_asc", FALSE>>
  /\ Len(ret.val) = 1
  /\ ret.val[1].path = pC
  /\ Len(items) = 5

\* ------------------------------------------------------------------------
\* C6
\* ------------------------------------------------------------------------

\* the tables that hold the rows of tbl in some rowid order; each is the
\* table after reset() and upserts of these rows in that order
Reorderings(tbl) ==
  LET n == Len(tbl) IN
  {[k \in 1..n |-> tbl[f[k]]] :
     f \in {g \in [1..n -> 1..n] : \A a, b \in 1..n : g[a] = g[b] => a = b}}

\* C6 (pagination determinism): the sequence getChildren returns is that of
\* every call with the same arguments on a store holding the same rows: rows
\* of equal sizeBytes are ordered by a key of the rows themselves.
C6_PaginationDeterminism ==
  GotChildren =>
    \A tbl \in Reorderings(items) :
       getChildren(TRUE, tbl, ret.args[1], ret.args[2], ret.args[3],
                   ret.args[4], ret.args[5]) = ret.val

\* ------------------------------------------------------------------------
\* C7
\* ------------------------------------------------------------------------

\* C7 (reset): after reset() on an open store every query answers empty or
\* not found, and a valid record upserted afterwards is stored.
C7_ResetEmpties ==
  (ret.op = "ResetDatabase" /\ ret.out = "ok" /\ StoreOpen) =>
    /\ AllEmpty(items)
    /\ \A n \in {x \in Nodes : ValidType(x)} :
         getItemByPath(TRUE, upsertItems(TRUE, items, <<n>>), n.path) # <<>>

\* ------------------------------------------------------------------------
\* C8
\* ------------------------------------------------------------------------

StoreOps == {"UpsertItems", "GetItemByPath", "GetChildren", "GetRoots",
             "GetTop", "ResetDatabase"}

\* C8 (store unavailable): while the store is not open, every store
\* operation ends with the "not open" error, and a shallow scan that
\* produced records does not return normally without persisting them.
C8_NotOpenFailsFast ==
  ~StoreOpen =>
    /\ ret.op \in StoreOps => ret.out = NotOpen
    /\ (ret.op = "ScanShallow" /\ ret.val # <<>>) => ret.out # "ok"

\* ------------------------------------------------------------------------
\* C9
\* ------------------------------------------------------------------------

\* C9 (no half-committed batch is read): the table every read of every thread
\* ran on was the table as of the last COMMIT, never one to which only some
\* records of a batch had been applied.
C9_NoHalfBatchRead ==
  \A t \in Threads : ~seen[t].partial

\* a read that was called while another thread had applied the first record
\* of its batch only, and that returned rows
C9_Witness ==
  \E t \in Threads :
     /\ seen[t].op \in ReadOps
     /\ seen[t].midBatch
     /\ seen[t].val # <<>>

\* ------------------------------------------------------------------------
\* C10
\* ------------------------------------------------------------------------

\* indices of the valid records of batch for path
RecordsFor(batch, path) ==
  {i \in 1..Len(batch) : batch[i].path = path /\ ValidType(batch[i])}

Last(S) == CHOOSE k \in S : \A l \in S : l <= k

\* the committed batches, up to the k-th, that wrote path with a timestamp
Stamped(path, k) ==
  {l \in 1..k : \E i \in RecordsFor(order[l].batch, path) :
                   order[l].batch[i].scannedUtc # ""}

\* C10 (last writer wins): whenever no batch is being applied, the row of
\* every path equals the record of the batch committed last among those
\* that wrote the path, in every column but indexedAt, which is that
\* record's if non-empty and else the latest non-empty one committed before.
C10_LastWriterWins ==
  (\A t \in Threads : pc[t] # "loop") =>
    \A path \in ObsPaths :
       LET writers == {k \in 1..Len(order) : RecordsFor(order[k].batch, path) # {}}
       IN  writers # {} =>
             LET k   == Last(writers)
                 n   == order[k].batch[Last(RecordsFor(order[k].batch, path))]
                 st  == Stamped(path, k)
                 got == getItemByPath(TRUE, items, path)
             IN  /\ Len(got) = 1
                 /\ [got[1] EXCEPT !.scannedUtc = ""] = [n EXCEPT !.scannedUtc = ""]
                 /\ got[1].scannedUtc =
                      IF st = {} THEN ""
                      ELSE LET b == order[Last(st)].batch
                           IN  b[Last(RecordsFor(b, path))].scannedUtc

\* two different batches writing /a and /c are committed, the second called
\* while the first was half applied; /a holds the columns of the second and
\* the timestamp of the first
C10_Witness ==
  /\ \A t \in Threads : pc[t] = "idle"
  /\ Len(order) = 2
  /\ order[1].batch = <<N1, N5>>
  /\ order[2].batch = <<N6, N2>>
  /\ order[2].midBatch
  /\ getItemByPath(TRUE, items, pA) = <<[N2 EXCEPT !.scannedUtc = "T1"]>>
  /\ getItemByPath(TRUE, items, pC) = <<N6>>

\* ------------------------------------------------------------------------
\* C11
\* ------------------------------------------------------------------------
NonSticky(r) == [r EXCEPT !.scannedUtc = ""]

\* the row of path in post is the row of pre if none of the records
\* batch[i], i \in applied, has that path, and has the columns of the last
\* such record otherwise
RowAfter(pre, post, batch, applied, path) ==
  LET here == {i \in applied : batch[i].path = path}
      got  == getItemByPath(TRUE, post, path)
  IN  IF here = {} THEN got = getItemByPath(TRUE, pre, path)
      ELSE Len(got) = 1 /\ NonSticky(got[1]) = NonSticky(batch[Last(here)])

\* C11 (invalid kind dropped): every stored row has type "File" or "Folder";
\* an upsert writes the records of these two types and nothing else, so the
\* row of a path that only records of another type name is what it was
\* before (absent, or the row stored earlier).
C11_InvalidKindDropped ==
  /\ \A i \in 1..Len(items) : items[i].type \in {"File", "Folder"}
  /\ (ret.op = "UpsertItems" /\ ret.out = "ok" /\ StoreOpen) =>
        \A path \in ObsPaths :
           RowAfter(ret.pre, items, ret.args,
                    {i \in 1..Len(ret.args) : ret.args[i].type \in {"File", "Folder"}},
                    path)

\* the batch [Symlink /c, Folder /a] on a store that holds the Folder row
\* of /c: /c keeps its row, /a is written
C11_Witness ==
  /\ ret.op = "UpsertItems" /\ ret.out = "ok" /\ StoreOpen
  /\ ret.args = <<N8, N1>>
  /\ getItemByPath(TRUE, ret.pre, pC) = <<N5>>
  /\ getItemByPath(TRUE, ret.pre, pA) = <<>>
  /\ getItemByPath(TRUE, items, pC) = <<N5>>
  /\ getItemByPath(TRUE, items, pA) = <<N1>>

\* ------------------------------------------------------------------------
\* C12
\* ------------------------------------------------------------------------

\* C12 (best-effort batch): after an upsert in which some steps failed, the
\* store holds every record whose step succeeded, before or after a failed
\* one, and the rows of the other paths are what they were before.
C12_BestEffortBatch ==
  (ret.op = "UpsertItemsRc" /\ ret.out = "ok" /\ StoreOpen) =>
     \A path \in ObsPaths :
        RowAfter(ret.pre, items, ret.args,
                 {i \in 1..Len(ret.args) :
                    ret.args[i].type \in {"File", "Folder"} /\ ret.val[i] = "done"},
                 path)

\* ------------------------------------------------------------------------
\* What an uncancelled deep scan of a tree has to return
\* ------------------------------------------------------------------------

\* sum of the sizes of the regular files among es[lo..hi]
RECURSIVE SizeOfFiles(_, _, _)
SizeOfFiles(es, lo, hi) ==
  IF lo > hi THEN 0
  ELSE IF lo = hi THEN (IF es[lo].kind = "file" THEN es[lo].size ELSE 0)
  ELSE LET mid == (lo + hi) \div 2
       IN  SizeOfFiles(es, lo, mid) + SizeOfFiles(es, mid + 1, hi)

RECURSIVE SumOver(_, _)
SumOver(f, S) ==
  IF S = {} THEN 0
  ELSE LET x == CHOOSE y \in S : TRUE IN f[x] + SumOver(f, S \ {x})

Greatest(S) == CHOOSE x \in S : \A y \in S : y <= x

\* the number of entries of dir that a listing delivers before it ends or
\* fails
Listed(id, dir) ==
  IF dir \notin DOMAIN DeepFs(id) THEN 0
  ELSE LET d == DeepFs(id)[dir]
       IN  IF d.failAt = -1 THEN Len(d.entries) ELSE d.failAt

\* size, number and write times of the regular files and number of the
\* directories that are listed in the subtree of dir
RECURSIVE Subtree(_, _)
Subtree(id, dir) ==
  LET es    == IF dir \in DOMAIN DeepFs(id) THEN DeepFs(id)[dir].entries ELSE <<>>
      top   == Listed(id, dir)
      files == {i \in 1..top : es[i].kind = "file"}
      dirs  == {i \in 1..top : es[i].kind = "dir"}
      sub   == [i \in dirs |-> Subtree(id, es[i].path)]
  IN  [size    |-> SizeOfFiles(es, 1, top) + SumOver([i \in dirs |-> sub[i].size], dirs),
       files   |-> Cardinality(files) + SumOver([i \in dirs |-> sub[i].files], dirs),
       folders |-> Cardinality(dirs) + SumOver([i \in dirs |-> sub[i].folders], dirs),
       lwts    |-> {es[i].lwt : i \in files} \cup UNION {sub[i].lwts : i \in dirs}]

Uncancelled == [id \in TreeIds |-> Subtree(id, Root(id))]

\* every directory of the tree can be listed to its end and every entry read
Readable ==
  [id \in TreeIds |->
     \A dir \in DOMAIN DeepFs(id) :
        /\ DeepFs(id)[dir].failAt = -1
        /\ \A i \in 1..Len(DeepFs(id)[dir].entries) :
              DeepFs(id)[dir].entries[i].kind # "error"]

\* the regular files of the tree, each with its directory
AllFiles ==
  [id \in TreeIds |->
     UNION {{[dir |-> dir, entry |-> DeepFs(id)[dir].entries[i]] :
               i \in {j \in 1..Len(DeepFs(id)[dir].entries) :
                        DeepFs(id)[dir].entries[j].kind = "file"}} :
            dir \in DOMAIN DeepFs(id)}]

Done == scanResult # NoResult

\* ------------------------------------------------------------------------
\* C13
\* ------------------------------------------------------------------------

\* C13 as stated: an uncancelled deep scan of a readable tree returns the
\* total size and number of its regular files, the number of its directories
\* and the greatest write time of its files.
C13_AggregateAdditivity_Original ==
  (Done /\ ~cancelled /\ Readable[fsId]) =>
     LET u == Uncancelled[fsId] IN
     /\ scanResult.sizeBytes = u.size
     /\ scanResult.fileCount = u.files
     /\ scanResult.folderCount = u.folders
     /\ u.lwts # {} => scanResult.latestMs = Greatest(u.lwts)

\* C13 (amended): as above, but latestMs is the greatest of 0 and the write
\* times of the files: it is 0 for a tree without files and for a tree whose
\* files were all last written before the epoch.
C13_AggregateAdditivity ==
  (Done /\ ~cancelled /\ Readable[fsId]) =>
     LET u == Uncancelled[fsId] IN
     /\ scanResult.sizeBytes = u.size
     /\ scanResult.fileCount = u.files
     /\ scanResult.folderCount = u.folders
     /\ scanResult.latestMs = Greatest(u.lwts \cup {0})

\* tree 1 scanned to the end: four files on two levels, below and above the
\* threshold, and two directories
C13_Witness ==
  /\ Done /\ ~cancelled /\ fsId = 1
  /\ scanResult = [sizeBytes |-> 153600 + 51200 + 102400 + 102399,
                   fileCount |-> 4, folderCount |-> 2, latestMs |-> 5000]

\* ------------------------------------------------------------------------
\* C14
\* ------------------------------------------------------------------------

\* C14 (small-file suppression): after an uncancelled deep scan of a
\* readable tree every regular file is counted in the aggregate; a file of
\* less than 100 KiB has no row in the store, a file of at least 100 KiB has
\* a File row whose parent is its directory and whose scannedUtc is set.
C14_SmallFileSuppression ==
  (Done /\ ~cancelled /\ Readable[fsId]) =>
     /\ scanResult.fileCount = Uncancelled[fsId].files
     /\ scanResult.sizeBytes = Uncancelled[fsId].size
     /\ \A f \in AllFiles[fsId] :
           LET row == getItemByPath(db_, items, f.entry.path) IN
           IF f.entry.size < 100 * 1024 THEN row = <<>>
           ELSE /\ Len(row) = 1
                /\ row[1].type = "File"
                /\ row[1].parent = f.dir
                /\ row[1].scannedUtc # ""

\* ------------------------------------------------------------------------
\* C15
\* ------------------------------------------------------------------------

\* C15 (no progress after cancellation): no event was handed to progressCb
\* while the cancellation flag was set.
C15_NoProgressAfterCancel ==
  \A i \in 1..Len(progress) : ~progress[i].afterCancel

\* ------------------------------------------------------------------------
\* C16
\* ------------------------------------------------------------------------

\* the safety part of C16
CancelSafe ==
  /\ hist.lateFiles + hist.lateDirs <= 1
  /\ Done =>
       LET u == Uncancelled[fsId] IN
       /\ scanResult.fileCount = hist.files
       /\ scanResult.sizeBytes = hist.size
       /\ scanResult.fileCount <= u.files
       /\ scanResult.sizeBytes <= u.size
       /\ hist.files < u.files => scanResult.fileCount < u.files
       /\ hist.flagAtStart => scanResult = ZeroResult

\* C16 (cooperative cancellation): while the flag is set at most the one
\* entry in flight is still processed (one file added or one directory
\* opened); the run returns the aggregate of exactly the files it added,
\* which is no more than the uncancelled aggregate and has fewer files when
\* some were not visited; a run started with the flag set returns zeros;
\* and every run that was started returns.
C16_CooperativeCancel ==
  []CancelSafe /\ ((stack # <<>>) ~> Done)

\* tree 1, cancelled inside /r/d while a file was in flight: the run has
\* returned through both levels with some but not all of the files
C16_Witness ==
  /\ Done /\ cancelled /\ ~hist.flagAtStart /\ fsId = 1
  /\ hist.lateFiles = 1
  /\ scanResult.folderCount = 1
  /\ scanResult.fileCount = 2
  /\ scanResult.sizeBytes = 153600 + 102400

\* ------------------------------------------------------------------------
\* C20
\* ------------------------------------------------------------------------

\* C20 (a failing subdirectory is contained): an uncancelled deep scan of a
\* tree with a directory that cannot be listed, a listing that fails midway
\* and an unreadable entry returns normally, with the aggregate of
\* everything listed before each failure and of every sibling after it.
C20_SubdirFailureContained ==
  (Done /\ ~cancelled /\ ~Readable[fsId]) =>
     LET u == Uncancelled[fsId] IN
     scanResult = [sizeBytes |-> u.size, fileCount |-> u.files,
                   folderCount |-> u.folders,
                   latestMs |-> Greatest(u.lwts \cup {0})]

\* tree 2 scanned to the end: /r/f, the first file of /r/p and /r/g, which
\* comes after the two failing directories and the unreadable entry
C20_Witness ==
  /\ Done /\ ~cancelled /\ fsId = 2
  /\ scanResult = [sizeBytes |-> 153600 + 11 + 51200, fileCount |-> 3,
                   folderCount |-> 2, latestMs |-> 4000]

\* ------------------------------------------------------------------------
\* C17
\* ------------------------------------------------------------------------

\* the directory that holds path: "/" for a path with one component
FsParent(path) ==
  IF Len(path) <= 2 THEN <<"/">> ELSE SubSeq(path, 1, Len(path) - 2)

\* C17 (the node of startPath): whatever startPath is, the sequence a
\* shallow scan returns has exactly one node with the path startPath; it is
\* the last one, a Folder of depth 0 whose parent is the directory that
\* holds startPath.
C17_StartPathNode ==
  ret.op = "ScanShallow" =>
     LET out == ret.val
         startPath == ret.args[1]
     IN  /\ Cardinality({i \in 1..Len(out) : out[i].path = startPath}) = 1
         /\ out[Len(out)].path = startPath
         /\ out[Len(out)].depth = 0
         /\ out[Len(out)].type = "Folder"
         /\ out[Len(out)].parent = FsParent(startPath)

\* ------------------------------------------------------------------------
\* C18
\* ------------------------------------------------------------------------
RECURSIVE SumField(_, _, _)
SumField(seq, field, n) ==
  IF n = 0 THEN 0 ELSE seq[n][field] + SumField(seq, field, n - 1)

\* C18 (sums over the emitted children): in the sequence of a shallow scan
\* the sizeBytes of the node of startPath is the sum of the sizeBytes of the
\* child nodes, and its fileCount is the sum of their fileCount.
C18_RootSumsChildren ==
  (ret.op = "ScanShallow" /\ ret.val # <<>>) =>
     LET out == ret.val
         n   == Len(out) - 1
     IN  /\ out[n + 1].sizeBytes = SumField(out, "sizeBytes", n)
         /\ out[n + 1].fileCount = SumField(out, "fileCount", n)

\* ------------------------------------------------------------------------
\* C19
\* ------------------------------------------------------------------------

\* C19 (a shallow scan claims no freshness): every node of a shallow scan
\* has an empty scannedUtc, and after the scan was upserted every row that
\* existed before has the scannedUtc it had before.
C19_ShallowKeepsStamp ==
  ret.op = "ScanShallow" =>
     /\ \A i \in 1..Len(ret.val) : ret.val[i].scannedUtc = ""
     /\ \A i \in 1..Len(ret.pre) :
           LET now == getItemByPath(TRUE, items, ret.pre[i].path)
           IN  Len(now) = 1 /\ now[1].scannedUtc = ret.pre[i].scannedUtc

\* /d and /d/f carry the timestamp of a deep scan; the shallow scan of /d
\* rewrites their sizes and leaves the timestamps
C19_Witness ==
  /\ ret.op = "ScanShallow" /\ StoreOpen /\ ret.args = <<pD>>
  /\ getItemByPath(TRUE, ret.pre, pD) = <<S1>>
  /\ getItemByPath(TRUE, ret.pre, pDF) = <<S2>>
  /\ LET d == getItemByPath(TRUE, items, pD)
         f == getItemByPath(TRUE, items, pDF)
     IN  /\ Len(d) = 1 /\ d[1].sizeBytes = 36 /\ d[1].runId = "scan"
                       /\ d[1].scannedUtc = "T1"
         /\ Len(f) = 1 /\ f[1].sizeBytes = 5 /\ f[1].runId = "scan"
                       /\ f[1].scannedUtc = "T1"

\* ------------------------------------------------------------------------
\* C21
\* ------------------------------------------------------------------------

\* indices of the rows of tbl of one kind
OfKind(tbl, kind) == {i \in 1..Len(tbl) : tbl[i].type = kind}

Min(a, b) == IF a < b THEN a ELSE b

\* the last getTop returned count rows: rows of the kind, each once, in
\* non-increasing size, and no row of the kind left out is larger than a
\* returned one
TopOfKind(count) ==
  LET idx == OfKind(items, ret.args[1])
      out == {ret.val[k].path : k \in 1..Len(ret.val)}
  IN  /\ Len(ret.val) = count
      /\ Cardinality(out) = Len(ret.val)
      /\ \A k \in 1..Len(ret.val) :
           \E i \in idx : ret.val[k] = ReadRow(items[i])
      /\ \A k \in 1..(Len(ret.val) - 1) :
           ret.val[k].sizeBytes >= ret.val[k + 1].sizeBytes
      /\ \A i \in idx : items[i].path \notin out =>
           \A k \in 1..Len(ret.val) : items[i].sizeBytes <= ret.val[k].sizeBytes

\* C21 as stated (top-k): getTop(kind, limit) returns min(limit, number of
\* stored rows of that kind) rows (none when that is negative), all of the
\* kind, in non-increasing size, and leaves out no larger row of the kind.
C21_TopK_Original ==
  (ret.op = "GetTop" /\ ret.out = "ok" /\ StoreOpen) =>
    LET n == Cardinality(OfKind(items, ret.args[1]))
        m == Min(ret.args[2], n)
    IN  TopOfKind(IF m < 0 THEN 0 ELSE m)

\* C21 (top-k): getTop(kind, limit) returns min(limit, number of stored rows
\* of that kind) rows when limit >= 0 and every row of the kind when limit is
\* negative; the rows are all of the kind, in non-increasing size, and no row
\* of the kind that is left out is larger than a returned one.
C21_TopK ==
  (ret.op = "GetTop" /\ ret.out = "ok" /\ StoreOpen) =>
    LET n == Cardinality(OfKind(items, ret.args[1]))
    IN  TopOfKind(IF ret.args[2] < 0 THEN n ELSE Min(ret.args[2], n))

\* getTop("File", 2) over four File rows, two of them of the greatest size,
\* and a Folder row: the two largest are returned, the smaller are left out
C21_Witness ==
  /\ ret.op = "GetTop" /\ ret.out = "ok" /\ StoreOpen
  /\ ret.args = <<"File", 2>>
  /\ Cardinality(OfKind(items, "File")) = 4
  /\ Cardinality(OfKind(items, "Folder")) = 1
  /\ Len(ret.val) = 2
  /\ ret.val[1].sizeBytes = 4 /\ ret.val[2].sizeBytes = 3

\* ------------------------------------------------------------------------
\* C22
\* ------------------------------------------------------------------------

\* the last call upserted one valid record onto a row whose scannedUtc was
\* already set
UpsertedOntoStamped ==
  /\ UpsertedOne
  /\ RowIndex(ret.pre, ret.args[1].path) # 0
  /\ ret.pre[RowIndex(ret.pre, ret.args[1].path)].scannedUtc # ""

\* C22 as stated (first timestamp wins): an upsert onto a row whose indexedAt
\* is set, with an empty or a different non-empty indexedAt, does not replace
\* the stored indexedAt, which so remains the first non-empty value written.
C22_FirstStampKept_Original ==
  UpsertedOntoStamped =>
    LET path == ret.args[1].path
    IN  items[RowIndex(items, path)].scannedUtc =
          ret.pre[RowIndex(ret.pre, path)].scannedUtc

\* C22 (latest timestamp wins): an upsert onto a row whose indexedAt is set
\* keeps the stored indexedAt when the incoming one is empty and replaces it
\* when the incoming one is non-empty, so the stored indexedAt is the last
\* non-empty value written for the path.
C22_LastStampKept ==
  UpsertedOntoStamped =>
    LET path == ret.args[1].path
        now  == items[RowIndex(items, path)].scannedUtc
    IN  now = IF ret.args[1].scannedUtc = ""
              THEN ret.pre[RowIndex(ret.pre, path)].scannedUtc
              ELSE ret.args[1].scannedUtc

\* a record stamped "T2" was upserted onto the row stamped "T1": the row now
\* carries "T2"
C22_Witness ==
  /\ UpsertedOntoStamped
  /\ ret.args[1].scannedUtc = "T2"
  /\ ret.pre[RowIndex(ret.pre, ret.args[1].path)].scannedUtc = "T1"
  /\ items[RowIndex(items, ret.args[1].path)].scannedUtc = "T2"

\* ------------------------------------------------------------------------
\* C23
\* ------------------------------------------------------------------------

\* C23 (non-negative aggregates): every stored row has sizeBytes >= 0,
\* fileCount >= 0 and folderCount >= 0, whatever upsert batches produced it.
C23_NonNegativeCounts ==
  \A i \in 1..Len(items) :
    items[i].sizeBytes >= 0 /\ items[i].fileCount >= 0 /\ items[i].folderCount >= 0

\* ------------------------------------------------------------------------
\* C24
\* ------------------------------------------------------------------------

\* every path that has a row in tbl has a row in after
RowsKept(tbl, after) ==
  \A i \in 1..Len(tbl) :
    /\ RowIndex(after, tbl[i].path) # 0
    /\ getItemByPath(TRUE, after, tbl[i].path) # <<>>

\* C24 (rows are removed only by reset): every step other than a call of
\* reset (upsert, the queries, a scan, vacuum, open and close) leaves a row
\* for every path that had one, so that without reset a path that once has a
\* row has one in every later state.
C24_OnlyResetRemoves ==
  [][ret'.op # "ResetDatabase" => RowsKept(items, items')]_vars

\* a scan of /c, which does not list /a, was stored while /a had a row: /a
\* still has it
C24_Witness ==
  /\ ret.op = "ScanShallow" /\ ret.args = <<pC>> /\ StoreOpen
  /\ RowIndex(ret.pre, pA) # 0
  /\ RowIndex(ret.pre, pC) = 0
  /\ RowIndex(items, pC) # 0
  /\ getItemByPath(TRUE, items, pA) # <<>>

\* ------------------------------------------------------------------------
\* C25
\* ------------------------------------------------------------------------

\* every event has state "running"
ProgRunning == \A k \in 1..Len(progress) : progress[k].state = "running"

\* in delivery order every reported itemsScanned exceeds the one reported
\* before it (0 before the first) by at least PROGRESS_INTERVAL: the values
\* increase strictly and no crossing is reported twice
ProgIncreasing ==
  \A k \in 1..Len(progress) :
    progress[k].itemsScanned >=
      (IF k = 1 THEN 0 ELSE progress[k - 1].itemsScanned) + PROGRESS_INTERVAL

\* when both threads have returned, no crossing is left without a report:
\* the count is less than PROGRESS_INTERVAL above the greatest reported value
ProgComplete ==
  (\A t \in Threads : pc[t] = "done") =>
    \E k \in 0..Len(progress) :
      LET reported == IF k = 0 THEN 0 ELSE progress[k].itemsScanned IN
      /\ \A j \in 1..Len(progress) : progress[j].itemsScanned <= reported
      /\ itemsScanned_ - reported < PROGRESS_INTERVAL

\* C25 (progress under contention): with two threads on one Scanner every
\* progress event has state "running", the itemsScanned values are strictly
\* increasing in delivery order, each at least PROGRESS_INTERVAL above the
\* one delivered before, no crossing is reported twice and every crossing of
\* the threshold is reported.
C25_ProgressOrdered == ProgRunning /\ ProgIncreasing /\ ProgComplete

\* ------------------------------------------------------------------------
\* C26
\* ------------------------------------------------------------------------

\* a is p or an ancestor of p: p continues a with a separator
AncestorOrSelf(a, p) == a = p \/ IsPrefix(a \o <<"/">>, p)

\* no character of the path is a LIKE wildcard
WildFree(path) == \A k \in 1..Len(path) : path[k] \notin {"_", "%"}

\* C26 (root inference at segment boundaries): over rows whose parentless
\* paths contain no wildcard character, getRoots with a limit of at least the
\* number of rows returns every row whose declared parent is not stored and
\* of whose path no parentless row's path is an ancestor at a path-segment
\* boundary; /ab with parent /m is returned when the parentless row is /a.
C26_SegmentBoundary ==
  (/\ ret.op = "GetRoots" /\ ret.out = "ok" /\ StoreOpen
   /\ ret.args[1] >= Len(items)
   /\ \A j \in 1..Len(items) : items[j].parent = NULL => WildFree(items[j].path)) =>
    \A i \in 1..Len(items) :
      (/\ items[i].parent # NULL
       /\ items[i].parent \notin {items[j].path : j \in 1..Len(items)}
       /\ ~\E j \in 1..Len(items) :
             items[j].parent = NULL /\ AncestorOrSelf(items[j].path, items[i].path)) =>
        \E k \in 1..Len(ret.val) : ret.val[k].path = items[i].path

\* ------------------------------------------------------------------------
\* C27
\* ------------------------------------------------------------------------

\* C27 (directory nodes in post-order): when an uncancelled deep scan of a
\* readable tree has returned, the records it has produced, in program order
\* (hist.emitted: every record pushed to a batchItems), contain for every
\* directory of the tree a Folder record that carries the directory's
\* recursive size and comes after every record of a path below it.
C27_DirectoryNodesPostOrder ==
  (Done /\ ~cancelled /\ Readable[fsId]) =>
    \A dir \in DOMAIN DeepFs(fsId) :
      \E k \in 1..Len(hist.emitted) :
        /\ hist.emitted[k].path = dir
        /\ hist.emitted[k].type = "Folder"
        /\ hist.emitted[k].sizeBytes = Subtree(fsId, dir).size
        /\ \A j \in 1..Len(hist.emitted) :
             IsPrefix(dir \o <<"/">>, hist.emitted[j].path) => j < k

\* ------------------------------------------------------------------------
\* C28
\* ------------------------------------------------------------------------

\* C28 (each row stands alone): after upsertBatch([n]) of a valid node n the
\* row of every other path, ancestors and descendants of n.path included, is
\* what it was before, and n.path has a row whether or not a row for
\* n.parent exists.
C28_RowStandsAlone ==
  UpsertedOne =>
    /\ \A path \in ObsPaths \ {ret.args[1].path} :
         getItemByPath(TRUE, items, path) = getItemByPath(TRUE, ret.pre, path)
    /\ \A i \in 1..Len(ret.pre) :
         ret.pre[i].path # ret.args[1].path =>
           \E j \in 1..Len(items) : items[j] = ret.pre[i]
    /\ getItemByPath(TRUE, items, ret.args[1].path) # <<>>

\* /a was upserted after its child /a/b, which was stored while /a had no
\* row: the row of /a/b is unchanged and both paths have a row
C28_Witness ==
  /\ UpsertedOne
  /\ ret.args[1].path = pA
  /\ RowIndex(ret.pre, pA) = 0
  /\ RowIndex(ret.pre, pAB) # 0
  /\ ret.pre[RowIndex(ret.pre, pAB)].parent = pA
  /\ getItemByPath(TRUE, items, pAB) = getItemByPath(TRUE, ret.pre, pAB)
  /\ getItemByPath(TRUE, items, pAB) # <<>>
  /\ getItemByPath(TRUE, items, pA) # <<>>

\* ------------------------------------------------------------------------
\* C29
\* ------------------------------------------------------------------------

\* the cap on the recursion depth that the caller of a deep scan asks for
maxDepth == 2

\* C29 (depth cap): a deep scan never enters a directory more than maxDepth
\* levels below its start path, also when the tree contains a directory
\* cycle: every activation that has passed its entry check is at most
\* maxDepth levels below the outermost one.
C29_DepthCapped ==
  \A k \in 1..Len(stack) :
    stack[k].pc # "enter" => stack[k].depth - stack[1].depth <= maxDepth

====
